---- MODULE Spec2Model ----
(***************************************************************************)
(* AI Learning Insight API (main.py): a FastAPI service that loads a       *)
(* scaler, a k-means model and a table of clustered students at import     *)
(* time and then serves /health, /clusters, /insights/{id}, /insights and  *)
(* /predict from these module globals.                                     *)
(*                                                                         *)
(* Conventions of the model                                                *)
(*   - Optional[T]: None is <<>>, a present value v is <<v>>.              *)
(*   - a float is held in eighths (the integer n stands for n/8), so that  *)
(*     every value is an exact binary fraction and str.format's rounding   *)
(*     (round-half-even on the exact value) is computed, not guessed.      *)
(*   - a response is a record: status_code 200 with a body, or the         *)
(*     HTTPException's status_code and detail.                             *)
(***************************************************************************)
EXTENDS Integers, Sequences, FiniteSets, TLC

VARIABLES
    disk,               \* the files next to main.py (read once, at import)
    scaler,             \* module global: None or the unpickled scaler
    kmeans,             \* module global: None or the unpickled model
    df_clustered,       \* module global: None or the rows of the csv
    profiles,           \* module global CLUSTER_PROFILES
    templates,          \* module global CLUSTER_TEMPLATES
    slot                \* per client: the request in flight / last response

globals == <<scaler, kmeans, df_clustered, profiles, templates>>
vars == <<disk, scaler, kmeans, df_clustered, profiles, templates, slot>>

\* ------------------------------------------------------------------ bounds
MaxRows == 2            \* rows of clustered_students.csv

Clients == {"c1", "c2"}

\* ---------------------------------------------------------------- optional
None == <<>>
Some(v) == <<v>>
Val(o) == o[1]

\* dict.get(key, default)
DictGet(d, k, default) == IF k \in DOMAIN d THEN d[k] ELSE default

\* ------------------------------------------------------- CLUSTER_PROFILES
CLUSTER_PROFILES ==
    [cid \in 0..3 |->
        CASE cid = 0 ->
            [label_id |-> "Fast Learner",
             short_description |->
                "Aktivitas belajar masih jarang, tetapi ketika mulai belajar mampu menyelesaikan modul dengan sangat cepat "
                \o "dan mempertahankan nilai ujian yang cukup baik. Volume journey relatif rendah dan hampir tidak ada revisi submission.",
             concept_tag |-> "fast_learner"]
          [] cid = 1 ->
            [label_id |-> "Consistent Learner",
             short_description |->
                "Belajar secara konsisten, menyelesaikan banyak journey, dan memiliki nilai ujian yang tinggi. "
                \o "Tingkat refleksi berada pada kisaran sedang.",
             concept_tag |-> "consistent_learner"]
          [] cid = 2 ->
            [label_id |-> "Reflective Learner",
             short_description |->
                "Sangat sering aktif dan menyelesaikan banyak journey, namun membutuhkan waktu yang panjang per modul. "
                \o "Cenderung mengulas materi secara mendalam.",
             concept_tag |-> "reflective_learner"]
          [] cid = 3 ->
            [label_id |-> "Struggling Learner",
             short_description |->
                "Cukup aktif dan banyak bereksperimen dengan submission (revisi tinggi), "
                \o "namun nilai ujian relatif rendah sehingga masih perlu penguatan konsep.",
             concept_tag |-> "struggling_learner"]]

\* ------------------------------------------------------ CLUSTER_TEMPLATES
\* A template is the sequence of its parts: literal text, or a replacement
\* field {name:.Pf} with its precision P.
Lit(s) == [lit |-> s]
Field(name, prec) == [field |-> name, prec |-> prec]

CLUSTER_TEMPLATES ==
    [cid \in 0..3 |->
        CASE cid = 0 ->
            << Lit("Aktivitas belajarmu masih jarang (sekitar "),
               Field("active_days", 0),
               Lit(" hari aktif), tetapi ketika mulai belajar kamu bergerak sangat cepat dengan rata-rata waktu selesai sekitar "),
               Field("avg_time_hours", 1),
               Lit(" jam per modul. Kamu telah menyelesaikan sekitar "),
               Field("journeys", 0),
               Lit(" journey dengan nilai ujian rata-rata "),
               Field("score", 0),
               Lit(". Cobalah meningkatkan frekuensi belajar agar dampak pembelajaranmu lebih konsisten.") >>
          [] cid = 1 ->
            << Lit("Kamu belajar secara cukup konsisten (sekitar "),
               Field("active_days", 0),
               Lit(" hari aktif) dan telah menyelesaikan sekitar "),
               Field("journeys", 0),
               Lit(" journey. Nilai ujian rata-ratamu tinggi, yaitu sekitar "),
               Field("score", 0),
               Lit(". Tingkat refleksi melalui submission yang ditolak berada di kisaran "),
               Field("rejection_ratio", 2),
               Lit(". Pertahankan pola belajar ini dan gunakan umpan balik untuk terus menyempurnakan pemahamanmu.") >>
          [] cid = 2 ->
            << Lit("Kamu sangat tekun dengan sekitar "),
               Field("active_days", 0),
               Lit(" hari aktif dan telah menyelesaikan sekitar "),
               Field("journeys", 0),
               Lit(" journey. Rata-rata waktu yang kamu habiskan per modul cukup panjang, sekitar "),
               Field("avg_time_hours", 1),
               Lit(" jam. Nilai ujian rata-ratamu sekitar "),
               Field("score", 0),
               Lit(". Pertahankan kedalaman belajarmu, namun pertimbangkan pengelolaan waktu belajar yang lebih efisien.") >>
          [] cid = 3 ->
            << Lit("Kamu cukup aktif belajar (sekitar "),
               Field("active_days", 0),
               Lit(" hari aktif) dan telah menyelesaikan sekitar "),
               Field("journeys", 0),
               Lit(" journey. Rata-rata nilai ujianmu saat ini sekitar "),
               Field("score", 0),
               Lit(", dengan rasio submission ditolak sekitar "),
               Field("rejection_ratio", 2),
               Lit(". Ini menunjukkan kamu banyak bereksperimen, tetapi masih perlu memperkuat pemahaman konsep dasar. Manfaatkan kembali materi, contoh solusi, dan umpan balik dari submission untuk meningkatkan hasil ujian.") >>]

\* ------------------------------------------------------------- str.format
Pow10(p) == CASE p = 0 -> 1 [] p = 1 -> 10 [] p = 2 -> 100

\* format(v, ".Pf") of the non-negative float v8/8: the exact value rounded
\* half-to-even to P decimals, the fraction zero-padded to P digits.
FormatFloat(v8, prec) ==
    LET scaled == v8 * Pow10(prec)
        q == scaled \div 8
        r == scaled % 8
        n == IF r > 4 \/ (r = 4 /\ q % 2 = 1) THEN q + 1 ELSE q
        whole == n \div Pow10(prec)
        frac == n % Pow10(prec)
    IN  CASE prec = 0 -> ToString(whole)
          [] prec = 1 -> ToString(whole) \o "." \o ToString(frac)
          [] prec = 2 -> ToString(whole) \o "."
                         \o (IF frac < 10 THEN "0" ELSE "") \o ToString(frac)

\* The replacement fields a template names.
FieldNames(template) ==
    {template[i].field : i \in {j \in DOMAIN template : "field" \in DOMAIN template[j]}}

RECURSIVE Render(_, _, _)
Render(template, kwargs, i) ==
    IF i > Len(template) THEN ""
    ELSE (IF "lit" \in DOMAIN template[i]
          THEN template[i].lit
          ELSE FormatFloat(kwargs[template[i].field], template[i].prec))
         \o Render(template, kwargs, i + 1)

\* template.format(**kwargs): KeyError when a field is not among the keyword
\* arguments, the expanded text otherwise. The empty template "" is <<>>.
Format(template, kwargs) ==
    IF FieldNames(template) \subseteq DOMAIN kwargs
    THEN [raised |-> FALSE, text |-> Render(template, kwargs, 1)]
    ELSE [raised |-> TRUE]

\* ------------------------------------------------------ pickled artifacts
\* The five features, in the order predict_cluster puts them into X.
FeatureOrder ==
    << "total_active_days", "avg_completion_time_hours",
       "total_journeys_completed", "rejection_ratio", "avg_exam_score" >>

\* scaler.pkl: a fitted standard scaler (mean_ and scale_ in eighths).
ScalerArtifact ==
    [mean_ |-> <<80, 48, 72, 2, 560>>, scale_ |-> <<80, 40, 48, 1, 160>>]

\* kmeans_model.pkl: fitted with five centroids (in scaled eighths), one more
\* than CLUSTER_PROFILES names, so cluster id 4 has no profile or template.
KMeansArtifact ==
    [cluster_centers_ |->
        << <<-6, -7, -8, -8, 7>>,
           <<2, -3, 8, 0, 9>>,
           <<16, 23, 15, 8, 2>>,
           <<0, 0, -2, 24, -10>>,
           <<-8, -10, -12, -16, -28>> >>]

\* scaler.transform(X)[0]: (x - mean_) / scale_ per feature.
transform(sc, X) ==
    [i \in 1..Len(X) |-> ((X[i] - sc.mean_[i]) * 8) \div sc.scale_[i]]

SqDist(a, b) ==
    LET d(i) == (a[i] - b[i]) * (a[i] - b[i])
    IN  d(1) + d(2) + d(3) + d(4) + d(5)

\* kmeans.predict(X_scaled)[0]: the index of the nearest centroid, the first
\* one among equals.
predict(km, Xs) ==
    LET C == km.cluster_centers_
        best == CHOOSE k \in DOMAIN C :
                    \A j \in DOMAIN C :
                        \/ SqDist(Xs, C[k]) < SqDist(Xs, C[j])
                        \/ SqDist(Xs, C[k]) = SqDist(Xs, C[j]) /\ k <= j
    IN  best - 1

\* ------------------------------------------------------------------ inputs
\* Feature vectors (eighths): 2 / 1.5 / 3 / 0.125 / 88 and so on; several sit
\* exactly on a rounding tie of the format that prints them.
FV(a, t, j, r, s) ==
    [total_active_days |-> a, avg_completion_time_hours |-> t,
     total_journeys_completed |-> j, rejection_ratio |-> r, avg_exam_score |-> s]

FeatureVectors ==
    << FV(16, 12, 24, 1, 704),
       FV(100, 34, 120, 2, 740),
       FV(240, 162, 160, 3, 600),
       FV(80, 48, 60, 5, 364),
       FV(0, 0, 0, 0, 0) >>

REQUIRED_COLS ==
    { "developer_id", "developer_name", "cluster_label", "total_active_days",
      "avg_completion_time_hours", "total_journeys_completed",
      "rejection_ratio", "avg_exam_score" }

\* The developer id that goes with the k-th feature vector in the csv; ids 1
\* and 2 occur on two rows each (nothing in main.py makes the id unique).
DevIds == <<1, 2, 1, 3, 2>>

\* A row of clustered_students.csv: the k-th feature vector with the cluster
\* the training run gave it. The name cell of developer 2 is empty (NaN).
Row(k) ==
    [developer_id |-> DevIds[k],
     developer_name |-> IF DevIds[k] = 2 THEN None
                        ELSE Some("Dev" \o ToString(DevIds[k])),
     cluster_label |-> k - 1] @@ FeatureVectors[k]

RowSet == {Row(k) : k \in DOMAIN FeatureVectors}

\* The sequences of at most n different elements of S.
RECURSIVE SeqsUpTo(_, _)
SeqsUpTo(S, n) ==
    IF n = 0 THEN {<<>>}
    ELSE LET shorter == SeqsUpTo(S, n - 1)
             longest == {p \in shorter : Len(p) = n - 1}
         IN  shorter \cup
             UNION {{Append(q, x) : x \in S \ {q[i] : i \in DOMAIN q}} : q \in longest}

Restrict(f, D) == [x \in D |-> f[x]]

\* clustered_students.csv: absent, or a header and rows; one header lacks a
\* required column.
CsvFiles ==
    {None}
    \cup {Some([columns |-> REQUIRED_COLS, rows |-> rs]) : rs \in SeqsUpTo(RowSet, MaxRows)}
    \cup {Some([columns |-> REQUIRED_COLS \ {"avg_exam_score"},
                rows |-> <<Restrict(Row(1), REQUIRED_COLS \ {"avg_exam_score"})>>])}

\* The files at import. When a pickle cannot be loaded the csv is never
\* opened, so an absent csv and one readable csv stand for all of them.
Disks ==
    {d \in [scaler_pkl : {None, Some(ScalerArtifact)},
            kmeans_pkl : {None, Some(KMeansArtifact)},
            csv : CsvFiles] :
        (d.scaler_pkl = None \/ d.kmeans_pkl = None)
            => d.csv \in {None, Some([columns |-> REQUIRED_COLS, rows |-> <<Row(1)>>])}}

\* --------------------------------------------------- load artifacts (29-60)
AllNone == [scaler |-> None, kmeans |-> None, df_clustered |-> None]

\* One try block: any exception (a pickle that cannot be opened, a csv that
\* cannot be read, a missing required column) sets all three globals to None.
LoadArtifacts(d) ==
    IF d.scaler_pkl = None THEN AllNone
    ELSE IF d.kmeans_pkl = None THEN AllNone
    ELSE IF d.csv = None THEN AllNone
    ELSE LET missing_cols == {c \in REQUIRED_COLS : c \notin Val(d.csv).columns}
         IN  IF missing_cols # {} THEN AllNone
             ELSE [scaler |-> d.scaler_pkl,
                   kmeans |-> d.kmeans_pkl,
                   df_clustered |-> Some(Val(d.csv).rows)]

\* ------------------------------------------------------------- responses
Ok(body) == [status_code |-> 200, body |-> body]
HTTPException(status_code, detail) == [status_code |-> status_code, detail |-> detail]

DatasetUnavailable == HTTPException(500, "Data clustering belum ter-load.")
ModelUnavailable == HTTPException(500, "Model belum ter-load.")
NotFound == HTTPException(404, "Developer ID tidak ditemukan di data clustering.")
\* The framework's answers: a query parameter outside its declared range, and
\* an exception that escapes a handler.
ValidationError == HTTPException(422, "Unprocessable Entity")
InternalServerError == HTTPException(500, "Internal Server Error")

\* --------------------------------------------- generate_insight_for_row
EmptyDict == <<>>
EmptyTemplate == <<>>

\* str(cell): the text of a name cell, "nan" for an empty one.
Str(cell) == IF cell = None THEN "nan" ELSE Val(cell)

\* Variant: a fallback label that does not name the cluster.
FallbackLabelUnknown(cluster_id) == "Unknown"

\* f"Cluster {cluster_id}"
FallbackLabel(cluster_id) == "Cluster " \o ToString(cluster_id)

\* Variant: the rejection_ratio keyword is not passed.
RowFormatArgsNoRatio(row) ==
    [active_days |-> row.total_active_days,
     avg_time_hours |-> row.avg_completion_time_hours,
     journeys |-> row.total_journeys_completed,
     score |-> row.avg_exam_score]

\* The keyword arguments generate_insight_for_row hands to template.format.
RowFormatArgs(row) ==
    [active_days |-> row.total_active_days,
     avg_time_hours |-> row.avg_completion_time_hours,
     journeys |-> row.total_journeys_completed,
     rejection_ratio |-> row.rejection_ratio,
     score |-> row.avg_exam_score]

\* None when template.format raises, the response dict otherwise.
generate_insight_for_row(g, row) ==
    LET cluster_id == row.cluster_label
        profile == DictGet(g.profiles, cluster_id, EmptyDict)
        template == DictGet(g.templates, cluster_id, EmptyTemplate)
        insight_text == Format(template, RowFormatArgs(row))
    IN  IF insight_text.raised THEN None
        ELSE Some([developer_id |-> row.developer_id,
                   developer_name |-> Str(row.developer_name),
                   cluster_id |-> cluster_id,
                   cluster_label |-> DictGet(profile, "label_id",
                                             FallbackLabel(cluster_id)),
                   concept_tag |-> IF "concept_tag" \in DOMAIN profile
                                   THEN Some(profile.concept_tag) ELSE None,
                   short_description |-> DictGet(profile, "short_description", ""),
                   insight_text |-> insight_text.text])

\* ---------------------------------------------------------------- endpoints
health_check(g) ==
    Ok([status |-> "ok",
        model_loaded |-> g.kmeans # None /\ g.scaler # None,
        data_loaded |-> g.df_clustered # None])

\* The keys of a dict in insertion order (the tables are written 0, 1, 2, 3).
Keys(d) ==
    [i \in 1..Cardinality(DOMAIN d) |->
        CHOOSE k \in DOMAIN d : Cardinality({j \in DOMAIN d : j < k}) = i - 1]

list_clusters(g) ==
    Ok([i \in 1..Cardinality(DOMAIN g.profiles) |->
            LET cid == Keys(g.profiles)[i]
                meta == g.profiles[cid]
            IN  [cluster_id |-> cid,
                 label_id |-> meta.label_id,
                 concept_tag |-> IF "concept_tag" \in DOMAIN meta
                                 THEN Some(meta.concept_tag) ELSE None,
                 short_description |-> meta.short_description]])

\* Variant: iloc[0] of the whole frame instead of the filtered one.
get_insight_first_row(g, developer_id) ==
    IF g.df_clustered = None THEN DatasetUnavailable
    ELSE LET row == SelectSeq(Val(g.df_clustered),
                              LAMBDA r : r.developer_id = developer_id)
         IN  IF row = <<>> THEN NotFound
             ELSE LET insight_dict ==
                          generate_insight_for_row(g, Val(g.df_clustered)[1])
                  IN  IF insight_dict = None THEN InternalServerError
                      ELSE Ok(Val(insight_dict))

\* Variant: a frame that was never loaded is treated as an empty one.
get_insight_none_as_empty(g, developer_id) ==
    LET df == IF g.df_clustered = None THEN <<>> ELSE Val(g.df_clustered)
        row == SelectSeq(df, LAMBDA r : r.developer_id = developer_id)
    IN  IF row = <<>> THEN NotFound
        ELSE LET insight_dict == generate_insight_for_row(g, row[1])
             IN  IF insight_dict = None THEN InternalServerError
                 ELSE Ok(Val(insight_dict))

get_insight_by_developer_id(g, developer_id) ==
    IF g.df_clustered = None THEN DatasetUnavailable
    ELSE LET row == SelectSeq(Val(g.df_clustered),
                              LAMBDA r : r.developer_id = developer_id)
         IN  IF row = <<>> THEN NotFound
             ELSE LET insight_dict == generate_insight_for_row(g, row[1])
                  IN  IF insight_dict = None THEN InternalServerError
                      ELSE Ok(Val(insight_dict))

\* limit: int = Query(10, ge=1, le=100)
LimitGe == 1
LimitLe == 100

Min(a, b) == IF a <= b THEN a ELSE b

\* Variant: the last rows instead of the first (df.tail).
tail(df, limit) == SubSeq(df, Len(df) - Min(limit, Len(df)) + 1, Len(df))

\* df.head(limit)
head(df, limit) == SubSeq(df, 1, Min(limit, Len(df)))

list_insights(g, limit) ==
    IF limit < LimitGe \/ limit > LimitLe THEN ValidationError
    ELSE IF g.df_clustered = None THEN DatasetUnavailable
    ELSE LET subset == head(Val(g.df_clustered), limit)
             insights == [i \in DOMAIN subset |-> generate_insight_for_row(g, subset[i])]
         IN  IF \E i \in DOMAIN insights : insights[i] = None
             THEN InternalServerError
             ELSE Ok([i \in DOMAIN insights |-> Val(insights[i])])

\* Variant: active_days and journeys take each other's value.
PayloadFormatArgsSwapped(payload) ==
    [active_days |-> payload.total_journeys_completed,
     avg_time_hours |-> payload.avg_completion_time_hours,
     journeys |-> payload.total_active_days,
     rejection_ratio |-> payload.rejection_ratio,
     score |-> payload.avg_exam_score]

\* The keyword arguments predict_cluster hands to template.format.
PayloadFormatArgs(payload) ==
    [active_days |-> payload.total_active_days,
     avg_time_hours |-> payload.avg_completion_time_hours,
     journeys |-> payload.total_journeys_completed,
     rejection_ratio |-> payload.rejection_ratio,
     score |-> payload.avg_exam_score]

\* payload.developer_name or "Unknown": None and "" are both falsy.
NameOrUnknown(developer_name) ==
    IF developer_name = None \/ Val(developer_name) = ""
    THEN Some("Unknown") ELSE developer_name

\* predict_cluster past its availability check: scale, predict, resolve.
predict_cluster_body(g, payload) ==
    LET X == [i \in DOMAIN FeatureOrder |-> payload[FeatureOrder[i]]]
        X_scaled == transform(Val(g.scaler), X)
        cluster_id == predict(Val(g.kmeans), X_scaled)
        profile == DictGet(g.profiles, cluster_id, EmptyDict)
        template == DictGet(g.templates, cluster_id, EmptyTemplate)
        insight_text == Format(template, PayloadFormatArgs(payload))
    IN  IF insight_text.raised THEN InternalServerError
        ELSE Ok([developer_id |-> payload.developer_id,
                 developer_name |-> NameOrUnknown(payload.developer_name),
                 cluster_id |-> cluster_id,
                 cluster_label |-> DictGet(profile, "label_id",
                                           "Cluster " \o ToString(cluster_id)),
                 concept_tag |-> IF "concept_tag" \in DOMAIN profile
                                 THEN Some(profile.concept_tag) ELSE None,
                 short_description |-> DictGet(profile, "short_description", ""),
                 insight_text |-> insight_text.text])

\* Variant: no availability check, so calling a method of None raises and
\* the exception escapes the handler.
predict_cluster_unchecked(g, payload) ==
    IF g.scaler = None \/ g.kmeans = None THEN InternalServerError
    ELSE predict_cluster_body(g, payload)

predict_cluster(g, payload) ==
    IF g.scaler = None \/ g.kmeans = None THEN ModelUnavailable
    ELSE predict_cluster_body(g, payload)

\* ----------------------------------------------------------------- requests
\* PredictRequest's optional identity: absent, given, and given as 0 / "".
Anonymous == [developer_id |-> None, developer_name |-> None]

Identities ==
    { Anonymous,
      [developer_id |-> Some(7), developer_name |-> Some("Budi")],
      [developer_id |-> Some(0), developer_name |-> Some("")] }

\* Every feature vector anonymously, the first one under every identity.
Payloads ==
    {FeatureVectors[k] @@ Anonymous : k \in DOMAIN FeatureVectors}
    \cup {FeatureVectors[1] @@ ident : ident \in Identities}

Limits == {LimitGe - 1, LimitLe, LimitLe + 1} \cup 1..(MaxRows + 1)

\* The ids of the csv and one that no row carries.
RequestIds == {DevIds[k] : k \in DOMAIN DevIds} \cup {4}

Requests ==
    {[op |-> "health"], [op |-> "clusters"]}
    \cup {[op |-> "get_insight", developer_id |-> i] : i \in RequestIds}
    \cup {[op |-> "list_insights", limit |-> l] : l \in Limits}
    \cup {[op |-> "predict", payload |-> p] : p \in Payloads}

\* ------------------------------------------------------------ state machine
G == [scaler |-> scaler, kmeans |-> kmeans, df_clustered |-> df_clustered,
      profiles |-> profiles, templates |-> templates]

Idle == [req |-> None, resp |-> None]

Pending(c, op) ==
    /\ slot[c].req # None
    /\ slot[c].resp = None
    /\ Val(slot[c].req).op = op

Respond(c, response) == slot' = [slot EXCEPT ![c].resp = Some(response)]

\* The state once main.py has been imported.
Init ==
    /\ disk \in Disks
    /\ scaler = LoadArtifacts(disk).scaler
    /\ kmeans = LoadArtifacts(disk).kmeans
    /\ df_clustered = LoadArtifacts(disk).df_clustered
    /\ profiles = CLUSTER_PROFILES
    /\ templates = CLUSTER_TEMPLATES
    /\ slot = [c \in Clients |-> Idle]

\* A client sends a request; the server may be working on other clients'.
Receive(c, req) ==
    /\ slot[c] = Idle
    /\ slot' = [slot EXCEPT ![c] = [req |-> Some(req), resp |-> None]]
    /\ UNCHANGED <<disk, globals>>

\* The response has been sent; the client may send its next request.
Reply(c) ==
    /\ slot[c].resp # None
    /\ slot' = [slot EXCEPT ![c] = Idle]
    /\ UNCHANGED <<disk, globals>>

HealthCheck(c) ==
    /\ Pending(c, "health")
    /\ Respond(c, health_check(G))
    /\ UNCHANGED <<disk, globals>>

ListClusters(c) ==
    /\ Pending(c, "clusters")
    /\ Respond(c, list_clusters(G))
    /\ UNCHANGED <<disk, globals>>

GetInsightByDeveloperId(c) ==
    /\ Pending(c, "get_insight")
    /\ Respond(c, get_insight_by_developer_id(G, Val(slot[c].req).developer_id))
    /\ UNCHANGED <<disk, globals>>

\* Variant: the handler rebinds the global to the truncated frame.
ListInsightsInPlace(c) ==
    /\ Pending(c, "list_insights")
    /\ Respond(c, list_insights(G, Val(slot[c].req).limit))
    /\ df_clustered' =
            IF df_clustered = None \/ Val(slot[c].req).limit \notin LimitGe..LimitLe
            THEN df_clustered
            ELSE Some(head(Val(df_clustered), Val(slot[c].req).limit))
    /\ UNCHANGED <<disk, scaler, kmeans, profiles, templates>>

ListInsights(c) ==
    /\ Pending(c, "list_insights")
    /\ Respond(c, list_insights(G, Val(slot[c].req).limit))
    /\ UNCHANGED <<disk, globals>>

PredictCluster(c) ==
    /\ Pending(c, "predict")
    /\ Respond(c, predict_cluster(G, Val(slot[c].req).payload))
    /\ UNCHANGED <<disk, globals>>

Next ==
    \E c \in Clients :
        \/ \E req \in Requests : Receive(c, req)
        \/ HealthCheck(c)
        \/ ListClusters(c)
        \/ GetInsightByDeveloperId(c)
        \/ ListInsights(c)
        \/ PredictCluster(c)
        \/ Reply(c)

Spec == Init /\ [][Next]_vars

\* =================================================================== claims
Done(c) == slot[c].resp # None
Req(c) == Val(slot[c].req)
Resp(c) == Val(slot[c].resp)
Answered(c, op) == Done(c) /\ Req(c).op = op

\* What is on disk, as the claims speak of it.
CsvLoadable == disk.csv # None /\ REQUIRED_COLS \subseteq Val(disk.csv).columns
PicklesLoadable == disk.scaler_pkl # None /\ disk.kmeans_pkl # None
StoredRows == Val(disk.csv).rows

\* The rows of the csv that carry an id, and the first of them.
Hits(id) == {i \in DOMAIN StoredRows : StoredRows[i].developer_id = id}
FirstHit(id) == CHOOSE i \in Hits(id) : \A j \in Hits(id) : i <= j

\* The insight text of a stored row, from the source's template table.
ExpectedText(row) ==
    Format(DictGet(CLUSTER_TEMPLATES, row.cluster_label, EmptyTemplate),
           [active_days |-> row.total_active_days,
            avg_time_hours |-> row.avg_completion_time_hours,
            journeys |-> row.total_journeys_completed,
            rejection_ratio |-> row.rejection_ratio,
            score |-> row.avg_exam_score]).text

IsDatasetUnavailable(r) ==
    r.status_code = 500 /\ r.detail = "Data clustering belum ter-load."
IsModelUnavailable(r) ==
    r.status_code = 500 /\ r.detail = "Model belum ter-load."
IsNotFound(r) ==
    r.status_code = 404 /\ r.detail = "Developer ID tidak ditemukan di data clustering."
IsRejected(r) == r.status_code = 422
IsCrash(r) == r.status_code = 500 /\ r.detail = "Internal Server Error"
HasResult(r) == "body" \in DOMAIN r

\* C1: with the dataset loaded, a lookup of an id that occurs in the csv
\* answers 200 with that developer_id and with the cluster id and the
\* insight text of a stored row carrying that id; a lookup of an id that no
\* row carries answers NotFound and carries no result.
C1_LookupByDeveloperId ==
    \A c \in Clients :
        (Answered(c, "get_insight") /\ df_clustered # None) =>
            LET id == Req(c).developer_id
            IN  IF Hits(id) # {}
                THEN /\ Resp(c).status_code = 200
                     /\ Resp(c).body.developer_id = id
                     /\ \E i \in Hits(id) :
                            /\ Resp(c).body.cluster_id = StoredRows[i].cluster_label
                            /\ Resp(c).body.insight_text = ExpectedText(StoredRows[i])
                ELSE IsNotFound(Resp(c)) /\ ~HasResult(Resp(c))

\* One client got the insight of an id that two rows carry while another
\* client got NotFound.
C1_Witness ==
    \E c1, c2 \in Clients :
        /\ Answered(c1, "get_insight") /\ df_clustered # None
        /\ Cardinality(Hits(Req(c1).developer_id)) = 2
        /\ Resp(c1).status_code = 200
        /\ Answered(c2, "get_insight")
        /\ IsNotFound(Resp(c2))

\* C2: with N rows loaded, a listing with limit in 1..100 answers 200 with
\* exactly min(limit, N) results, the i-th built from the i-th stored row; a
\* limit outside 1..100 is rejected and carries no result.
C2_ListInsights ==
    \A c \in Clients :
        (Answered(c, "list_insights") /\ df_clustered # None) =>
            LET limit == Req(c).limit
                N == Len(StoredRows)
            IN  IF limit >= 1 /\ limit <= 100
                THEN /\ Resp(c).status_code = 200
                     /\ Len(Resp(c).body) = (IF limit <= N THEN limit ELSE N)
                     /\ \A i \in DOMAIN Resp(c).body :
                            /\ Resp(c).body[i].developer_id = StoredRows[i].developer_id
                            /\ Resp(c).body[i].cluster_id = StoredRows[i].cluster_label
                            /\ Resp(c).body[i].insight_text = ExpectedText(StoredRows[i])
                ELSE IsRejected(Resp(c)) /\ ~HasResult(Resp(c))

\* A listing cut to one of two rows, and a listing rejected for limit 101.
C2_Witness ==
    \E c1, c2 \in Clients :
        /\ df_clustered # None /\ Len(StoredRows) = 2
        /\ Answered(c1, "list_insights") /\ Req(c1).limit = 1
        /\ Resp(c1).status_code = 200 /\ Len(Resp(c1).body) = 1
        /\ Answered(c2, "list_insights") /\ Req(c2).limit = 101
        /\ IsRejected(Resp(c2))

\* C3: when the scaler or the model is not initialized, health reports
\* model_loaded = false and every prediction answers ModelUnavailable (the
\* handler's own error, not an exception from calling into None).
C3_ModelUnavailable ==
    (scaler = None \/ kmeans = None) =>
        \A c \in Clients :
            /\ Answered(c, "health") => Resp(c).body.model_loaded = FALSE
            /\ Answered(c, "predict") => IsModelUnavailable(Resp(c))

\* The pickles could not be loaded; health and a prediction were answered.
C3_Witness ==
    \E c1, c2 \in Clients :
        /\ ~PicklesLoadable
        /\ Answered(c1, "health") /\ Resp(c1).body.model_loaded = FALSE
        /\ Answered(c2, "predict") /\ IsModelUnavailable(Resp(c2))

\* C4 as claimed: with the dataset not loaded, every lookup and every listing
\* answers DatasetUnavailable, whatever its argument.
C4_AsClaimed ==
    df_clustered = None =>
        \A c \in Clients :
            (Answered(c, "get_insight") \/ Answered(c, "list_insights"))
                => IsDatasetUnavailable(Resp(c))

\* C4, amended: a csv that is absent or lacks a required column leaves the
\* dataset unloaded; with the dataset not loaded every lookup and every
\* listing with limit in 1..100 answers DatasetUnavailable, and a listing
\* with limit outside 1..100 is rejected by the range validation, which runs
\* before the dataset check; none carries a result. NotFound is answered only
\* with the dataset loaded, and no response is two of DatasetUnavailable,
\* ModelUnavailable and NotFound.
C4_DatasetUnavailable ==
    /\ ~CsvLoadable => df_clustered = None
    /\ df_clustered = None =>
        \A c \in Clients :
            /\ Answered(c, "get_insight") =>
                    IsDatasetUnavailable(Resp(c)) /\ ~HasResult(Resp(c))
            /\ Answered(c, "list_insights") =>
                    /\ ~HasResult(Resp(c))
                    /\ IF Req(c).limit >= 1 /\ Req(c).limit <= 100
                       THEN IsDatasetUnavailable(Resp(c))
                       ELSE IsRejected(Resp(c))
    /\ \A c \in Clients :
        Done(c) /\ ~HasResult(Resp(c)) =>
            /\ IsNotFound(Resp(c)) => df_clustered # None
            /\ ~(IsDatasetUnavailable(Resp(c)) /\ IsModelUnavailable(Resp(c)))
            /\ ~(IsDatasetUnavailable(Resp(c)) /\ IsNotFound(Resp(c)))
            /\ ~(IsModelUnavailable(Resp(c)) /\ IsNotFound(Resp(c)))

\* The csv lacks a required column; a lookup was answered DatasetUnavailable
\* and a listing with limit 101 was rejected.
C4_Witness ==
    \E c1, c2 \in Clients :
        /\ disk.csv # None /\ ~CsvLoadable /\ PicklesLoadable
        /\ Answered(c1, "get_insight") /\ IsDatasetUnavailable(Resp(c1))
        /\ Answered(c2, "list_insights") /\ Req(c2).limit = 101
        /\ IsRejected(Resp(c2))

\* C5 as claimed: health's model_loaded tells whether the two pickles loaded
\* and data_loaded whether the csv loaded; a prediction answers
\* ModelUnavailable only when a pickle failed to load, and a lookup or listing
\* answers DatasetUnavailable only when the csv failed to load.
C5_IndependentCauses ==
    \A c \in Clients :
        /\ Answered(c, "health") =>
                /\ Resp(c).body.model_loaded = PicklesLoadable
                /\ Resp(c).body.data_loaded = CsvLoadable
        /\ (Answered(c, "predict") /\ IsModelUnavailable(Resp(c)))
                => ~PicklesLoadable
        /\ ((Answered(c, "get_insight") \/ Answered(c, "list_insights"))
                /\ IsDatasetUnavailable(Resp(c)))
                => ~CsvLoadable

\* The results a response carries.
Results(c) ==
    IF ~Done(c) \/ ~HasResult(Resp(c)) THEN {}
    ELSE CASE Req(c).op \in {"get_insight", "predict"} -> {Resp(c).body}
           [] Req(c).op = "list_insights" ->
                {Resp(c).body[i] : i \in DOMAIN Resp(c).body}
           [] OTHER -> {}

\* C6: a result whose cluster id has no profile carries the label
\* "Cluster <id>", an empty description and no concept tag; one whose cluster
\* id has no template carries an empty insight text; and the request is
\* answered 200: a lookup that finds a row and a prediction with the model
\* loaded never fail.
C6_UnknownClusterFallback ==
    \A c \in Clients :
        /\ \A r \in Results(c) :
            /\ r.cluster_id \notin DOMAIN CLUSTER_PROFILES =>
                    /\ r.cluster_label = "Cluster " \o ToString(r.cluster_id)
                    /\ r.short_description = ""
                    /\ r.concept_tag = None
            /\ r.cluster_id \notin DOMAIN CLUSTER_TEMPLATES => r.insight_text = ""
        /\ (Answered(c, "get_insight") /\ df_clustered # None
                /\ Hits(Req(c).developer_id) # {})
                => Resp(c).status_code = 200
        /\ (Answered(c, "predict") /\ scaler # None /\ kmeans # None)
                => Resp(c).status_code = 200

\* Cluster 4, which neither table names, resolved on the lookup path by one
\* client and on the predict path by the other.
C6_Witness ==
    \E c1, c2 \in Clients :
        /\ Answered(c1, "get_insight") /\ Resp(c1).status_code = 200
        /\ Resp(c1).body.cluster_id = 4
        /\ Resp(c1).body.cluster_label = "Cluster 4"
        /\ Resp(c1).body.insight_text = ""
        /\ Answered(c2, "predict") /\ Resp(c2).status_code = 200
        /\ Resp(c2).body.cluster_id = 4
        /\ Resp(c2).body.cluster_label = "Cluster 4"
        /\ Resp(c2).body.insight_text = ""

\* C7 as claimed: a prediction's result carries the supplied developer_id
\* unchanged and the supplied developer_name for every supplied string,
\* "Unknown" only when the name is absent; a lookup's result carries the stored
\* name's text.
C7_IdentityCarried ==
    \A c \in Clients :
        /\ (Answered(c, "predict") /\ Resp(c).status_code = 200) =>
                /\ Resp(c).body.developer_id = Req(c).payload.developer_id
                /\ Resp(c).body.developer_name =
                        (IF Req(c).payload.developer_name = None
                         THEN Some("Unknown")
                         ELSE Req(c).payload.developer_name)
        /\ (Answered(c, "get_insight") /\ Resp(c).status_code = 200) =>
                \E i \in Hits(Req(c).developer_id) :
                    Resp(c).body.developer_name =
                        (IF StoredRows[i].developer_name = None THEN "nan"
                         ELSE Val(StoredRows[i].developer_name))

\* The five keyword arguments the resolver supplies.
SuppliedSlots == {"active_days", "avg_time_hours", "journeys", "rejection_ratio", "score"}

\* C8: both tables have an entry for each of 0, 1, 2, 3 whose template names
\* only supplied slots; no request ends in an escaped exception (formatting
\* never raises), and every result with a known cluster id carries a
\* non-empty label and the fully expanded text of its template.
C8_KnownClustersResolve ==
    /\ \A k \in 0..3 :
        /\ k \in DOMAIN profiles
        /\ k \in DOMAIN templates
        /\ FieldNames(templates[k]) \subseteq SuppliedSlots
    /\ \A c \in Clients :
        /\ Done(c) => ~IsCrash(Resp(c))
        /\ \A r \in Results(c) :
            r.cluster_id \in 0..3 => r.cluster_label # "" /\ r.insight_text # ""
        /\ (Answered(c, "get_insight") /\ df_clustered # None
                /\ Hits(Req(c).developer_id) # {}
                /\ StoredRows[FirstHit(Req(c).developer_id)].cluster_label \in 0..3)
                => /\ Resp(c).status_code = 200
                   /\ Resp(c).body.insight_text =
                        ExpectedText(StoredRows[FirstHit(Req(c).developer_id)])

\* Cluster 3 resolved on the lookup path and cluster 1 on the predict path;
\* both templates use the rejection_ratio slot.
C8_Witness ==
    \E c1, c2 \in Clients :
        /\ Answered(c1, "get_insight") /\ Resp(c1).status_code = 200
        /\ Resp(c1).body.cluster_id = 3
        /\ Resp(c1).body.cluster_label = "Struggling Learner"
        /\ Answered(c2, "predict") /\ Resp(c2).status_code = 200
        /\ Resp(c2).body.cluster_id = 1
        /\ Resp(c2).body.cluster_label = "Consistent Learner"

\* The globals as the import left them, and the answer a request gets when it
\* is the only one the freshly started server ever handles.
StartGlobals ==
    [scaler |-> LoadArtifacts(disk).scaler,
     kmeans |-> LoadArtifacts(disk).kmeans,
     df_clustered |-> LoadArtifacts(disk).df_clustered,
     profiles |-> CLUSTER_PROFILES,
     templates |-> CLUSTER_TEMPLATES]

Alone(req) ==
    CASE req.op = "health" -> health_check(StartGlobals)
      [] req.op = "clusters" -> list_clusters(StartGlobals)
      [] req.op = "get_insight" ->
            get_insight_by_developer_id(StartGlobals, req.developer_id)
      [] req.op = "list_insights" -> list_insights(StartGlobals, req.limit)
      [] req.op = "predict" -> predict_cluster(StartGlobals, req.payload)

FeaturesOf(x) ==
    [i \in DOMAIN FeatureOrder |-> x[FeatureOrder[i]]]

\* Every answer is the one the request gets alone, whatever the other client
\* asked before or meanwhile.
Isolated == \A c \in Clients : Done(c) => Resp(c) = Alone(Req(c))

\* Two answered predictions of the same feature values agree.
SamePrediction ==
    \A c1, c2 \in Clients :
        (/\ Answered(c1, "predict") /\ Answered(c2, "predict")
         /\ HasResult(Resp(c1)) /\ HasResult(Resp(c2))
         /\ FeaturesOf(Req(c1).payload) = FeaturesOf(Req(c2).payload))
        => /\ Resp(c1).body.cluster_id = Resp(c2).body.cluster_id
           /\ Resp(c1).body.insight_text = Resp(c2).body.insight_text

\* C9: no step of any request, answered or failed, changes the profile table,
\* the template table, the dataset, the scaler or the model (the load flags of
\* health are derived from these); in every state each answer is the one its
\* request gets alone, and two predictions of the same feature values carry
\* the same cluster id and insight text.
C9_SharedStateReadOnly ==
    /\ [][globals' = globals]_vars
    /\ []Isolated
    /\ []SamePrediction

\* Both clients were answered a prediction of the same feature values, asked
\* under different identities.
C9_Witness ==
    \E c1, c2 \in Clients :
        /\ c1 # c2
        /\ Answered(c1, "predict") /\ Answered(c2, "predict")
        /\ HasResult(Resp(c1)) /\ HasResult(Resp(c2))
        /\ Req(c1).payload # Req(c2).payload
        /\ FeaturesOf(Req(c1).payload) = FeaturesOf(Req(c2).payload)

\* C10: a lookup resolved from a stored row and a prediction of the same
\* feature values to which the model gives the row's cluster id carry the same
\* cluster_id, cluster_label, concept_tag, short_description and insight_text.
C10_PathsAgree ==
    \A c1, c2 \in Clients :
        (/\ Answered(c1, "get_insight") /\ HasResult(Resp(c1))
         /\ Answered(c2, "predict") /\ HasResult(Resp(c2))
         /\ LET row == StoredRows[FirstHit(Req(c1).developer_id)]
            IN  /\ FeaturesOf(row) = FeaturesOf(Req(c2).payload)
                /\ row.cluster_label = Resp(c2).body.cluster_id)
        => /\ Resp(c1).body.cluster_id = Resp(c2).body.cluster_id
           /\ Resp(c1).body.cluster_label = Resp(c2).body.cluster_label
           /\ Resp(c1).body.concept_tag = Resp(c2).body.concept_tag
           /\ Resp(c1).body.short_description = Resp(c2).body.short_description
           /\ Resp(c1).body.insight_text = Resp(c2).body.insight_text

\* The row of cluster 2 looked up by one client, its feature values predicted
\* into cluster 2 for the other.
C10_Witness ==
    \E c1, c2 \in Clients :
        /\ Answered(c1, "get_insight") /\ HasResult(Resp(c1))
        /\ Answered(c2, "predict") /\ HasResult(Resp(c2))
        /\ Resp(c1).body.cluster_id = 2 /\ Resp(c2).body.cluster_id = 2
        /\ FeaturesOf(StoredRows[FirstHit(Req(c1).developer_id)])
                = FeaturesOf(Req(c2).payload)
        /\ Resp(c1).body.cluster_label = "Reflective Learner"

====
